---- MODULE Spec2Model ----
(***************************************************************************)
(* A model of the SOPS decrypt engine of src/airflow/sops/yaml.py:         *)
(* version comparison, key acquisition (KMS then PGP), the rotation scan,  *)
(* the recursive walk with per-leaf AES-GCM decryption, AAD accumulation,  *)
(* unencrypted-suffix propagation, digest accumulation and the MAC check.  *)
(*                                                                         *)
(* Byte strings and text are sequences of tokens (each token stands for a  *)
(* run of bytes); concatenation is \o.  AES-GCM is modelled by its         *)
(* contract: a ciphertext authenticates exactly under the key and the AAD  *)
(* it was sealed with.  SHA-512 is modelled as collision free: the digest  *)
(* of a stream is the stream itself, tagged by the case of its hex form.   *)
(***************************************************************************)
EXTENDS Integers, Sequences, FiniteSets, TLC

VARIABLES
  pc,          \* stage of _decrypt_stream: Parsed, KeyAcquired, RotationChecked, Walked, Done, Aborted
  tree,        \* the parsed document: the root mapping (with its 'sops' entry)
  sops,        \* the content of tree['sops']
  ignore_mac,  \* the caller's ignore_mac argument
  key,         \* the data key _get_key returned
  err,         \* the kind of the exception that ended the session ("none" if none)
  stage,       \* the stage at which the session aborted ("none" if it did not)
  errPath,     \* path of the leaf whose _decrypt call raised
  errors,      \* the per-entry failures _get_key_from_kms recorded
  advisory,    \* whether _check_rotation_needed printed the rotation advisory
  visits,      \* one record per _decrypt call of the walk, in call order
  result,      \* what _decrypt_stream returned
  orig,        \* the document as it was encrypted (before any tampering)
  tamper,      \* what was done to the document after encryption
  vpc, A, B, ab, ba   \* the version comparison: its inputs and both verdicts

vars == <<pc, tree, sops, ignore_mac, key, err, stage, errPath, errors,
          advisory, visits, result, orig, tamper, vpc, A, B, ab, ba>>

sessionVars == <<pc, tree, sops, ignore_mac, key, err, stage, errPath, errors,
                 advisory, visits, result, orig, tamper>>

versionVars == <<vpc, A, B, ab, ba>>

----------------------------------------------------------------------------
(* Bounds of the model *)

\* nodes (containers and scalars) below the root mapping of a structured document
MaxNodes == 4

\* key-wrapping entries in one backend's list
MaxEntries == 2

\* components of a version string, and the largest component
MaxVerLen == 2

MaxComp == 2

----------------------------------------------------------------------------
(* Constants of the program *)

INPUT_VERSION == <<1, 18>>

UNENCRYPTED_SUFFIX == <<"_unencrypted">>

\* timedelta(days=183)
RotationDays == 183

\* len(key) == 32
KeyLen == 32

Min(a, b) == IF a < b THEN a ELSE b

----------------------------------------------------------------------------
(* _a_is_newer_than_b: versions are the sequences of their int() components *)

RECURSIVE newer_loop(_, _, _, _, _)
newer_loop(VA, VB, i, lim, is_equal) ==
  IF i > lim THEN is_equal /\ Len(VA) > Len(VB)
  ELSE IF VA[i] > VB[i] THEN TRUE
  ELSE newer_loop(VA, VB, i + 1, lim, is_equal /\ VA[i] = VB[i])

a_is_newer_than_b(VA, VB) == newer_loop(VA, VB, 1, Min(Len(VA), Len(VB)), TRUE)

----------------------------------------------------------------------------
(* Scalars.  A scalar is a record of one shape:                            *)
(*   s    "str" (a str not in ENC[...] framing), "enc" (a str in the       *)
(*        framing), "bytes", "int", "float", "bool"                        *)
(*   b    its text or bytes; for "enc" the cleartext sealed in it          *)
(*   n    its number (int, float in tenths, bool as 0/1)                   *)
(*   ty   the framing's type tag ("none": the framing has no type field)   *)
(*   kid  the key the ciphertext was sealed with ("tampered": no key       *)
(*        authenticates it), aad: the AAD it was sealed with               *)

StrV(b) == [s |-> "str", b |-> b, n |-> 0, ty |-> "", kid |-> "", aad |-> <<>>]

BytesV(b) == [s |-> "bytes", b |-> b, n |-> 0, ty |-> "", kid |-> "", aad |-> <<>>]

IntV(n) == [s |-> "int", b |-> <<>>, n |-> n, ty |-> "", kid |-> "", aad |-> <<>>]

FloatV(n) == [s |-> "float", b |-> <<>>, n |-> n, ty |-> "", kid |-> "", aad |-> <<>>]

BoolV(v) == [s |-> "bool", b |-> <<>>, n |-> IF v THEN 1 ELSE 0, ty |-> "", kid |-> "", aad |-> <<>>]

EncV(b, ty, kid, aad) == [s |-> "enc", b |-> b, n |-> 0, ty |-> ty, kid |-> kid, aad |-> aad]

\* value is a Python str (it has .encode)
IsPyStr(value) == value.s \in {"str", "enc"}

\* the text of a str: the framing's text is one token sequence per ciphertext
Text(value) ==
  IF value.s = "enc"
  THEN <<"ENC[AES256_GCM,data:">> \o value.b \o <<",iv:", value.kid, ",tag:">>
         \o value.aad \o (IF value.ty = "none" THEN <<"]">> ELSE <<",type:", value.ty, "]">>)
  ELSE value.b

\* == of two Python values: two strs are equal when their texts are
PyEq(x, y) == IF IsPyStr(x) /\ IsPyStr(y) THEN Text(x) = Text(y) ELSE x = y

\* str(value) of a value that is not bytes
PyStr(value) ==
  CASE IsPyStr(value) -> Text(value)
    [] value.s = "bool" -> IF value.n = 1 THEN <<"True">> ELSE <<"False">>
    [] OTHER -> <<ToString(value.n)>>

\* _to_bytes
to_bytes(value) == IF value.s = "bytes" THEN value.b ELSE PyStr(value)

\* bytes.decode('utf-8') succeeds unless a token is not UTF-8
IsUtf8(b) == \A i \in 1..Len(b) : b[i] # "0xFF"

\* the texts int() and float() parse, with their values (floats in tenths)
IntText == [t \in {"42", "7"} |-> IF t = "42" THEN 42 ELSE 7]

FloatText == [t \in {"42", "7", "1.5"} |-> IF t = "42" THEN 420 ELSE IF t = "7" THEN 70 ELSE 15]

\* bytes.lower()
LowerTok(t) == IF t \in {"TRUE", "True", "true"} THEN "true" ELSE t

lower(b) == [i \in 1..Len(b) |-> LowerTok(b[i])]

----------------------------------------------------------------------------
(* The digest: hashlib.sha512(), update() and hexdigest().upper() *)

NoDigest == [on |-> FALSE, d |-> <<>>]

sha512 == [on |-> TRUE, d |-> <<>>]

update(dg, b) == [dg EXCEPT !.d = dg.d \o b]

hexdigest(dg) == <<"hex">> \o dg.d

UpperTok(t) == IF t = "hex" THEN "HEX" ELSE t

upper(b) == [i \in 1..Len(b) |-> UpperTok(b[i])]

----------------------------------------------------------------------------
(* Data keys: id names the key material, len its length in bytes.          *)
(* id "None" is Python's None.                                             *)

None == [id |-> "None", len |-> 0]

\* algorithms.AES(key) accepts 128, 192 and 256 bit keys
AesKeyOk(k) == k.len \in {16, 24, 32}

\* decryptor.authenticate_additional_data(aad); update(); finalize():
\* the tag verifies exactly under the sealing key and the sealing AAD.
\* (the variant below never feeds the AAD)
AeadAuthenticates_NoAad(value, k, aad) == k.id = value.kid

AeadAuthenticates(value, k, aad) == k.id = value.kid /\ aad = value.aad

\* re.match(valre, ...): the ',type:(.+)' field is required for versions
\* newer than 0.8
re_match(value) ==
  /\ value.s = "enc"
  /\ a_is_newer_than_b(INPUT_VERSION, <<0, 8>>) => value.ty # "none"

\* valtype: the bytes of group(4), or the str 'str' for the old format
valtype_of(value) ==
  IF a_is_newer_than_b(INPUT_VERSION, <<0, 8>>) THEN <<"bytes", value.ty>> ELSE <<"str", "str">>

\* lines 146-170: the typed decode of the cleartext
decode(valtype, cleartext) ==
  CASE valtype = <<"bytes", "bytes">> -> [out |-> BytesV(cleartext), err |-> "none"]
    [] valtype = <<"bytes", "str">> ->
         [out |-> IF IsUtf8(cleartext) THEN StrV(cleartext) ELSE BytesV(cleartext), err |-> "none"]
    [] valtype = <<"bytes", "int">> ->
         IF ~IsUtf8(cleartext) THEN [out |-> BytesV(cleartext), err |-> "UnicodeDecodeError"]
         ELSE IF Len(cleartext) = 1 /\ cleartext[1] \in DOMAIN IntText
         THEN [out |-> IntV(IntText[cleartext[1]]), err |-> "none"]
         ELSE [out |-> BytesV(cleartext), err |-> "ValueError"]
    [] valtype = <<"bytes", "float">> ->
         IF ~IsUtf8(cleartext) THEN [out |-> BytesV(cleartext), err |-> "UnicodeDecodeError"]
         ELSE IF Len(cleartext) = 1 /\ cleartext[1] \in DOMAIN FloatText
         THEN [out |-> FloatV(FloatText[cleartext[1]]), err |-> "none"]
         ELSE [out |-> BytesV(cleartext), err |-> "ValueError"]
    [] valtype = <<"bytes", "bool">> ->
         [out |-> BoolV(lower(cleartext) = <<"true">>), err |-> "none"]
    \* _panic("unknown type " + valtype, 23): str + bytes raises TypeError
    [] OTHER -> [out |-> BytesV(cleartext),
                 err |-> IF valtype[1] = "bytes" THEN "TypeError" ELSE "UnknownValueType"]

\* lines 143-170 once the cleartext is recovered: the digest is fed, then the
\* decode returns or raises
decoded(cleartext, digest, dec) ==
  [out |-> dec.out, err |-> dec.err, matched |-> TRUE, aead |-> TRUE,
   digest |-> IF digest.on THEN update(digest, cleartext) ELSE digest,
   fed |-> digest.on, bytes |-> IF digest.on THEN cleartext ELSE <<>>]

\* _decrypt: the value returned, the digest after it, the exception raised
\* ("none" if none), and what the call did: whether the regex classified the
\* value as encrypted, whether the AEAD was run, and the bytes fed to the digest
decrypt(value, k, aad, digest, unencrypted) ==
  IF unencrypted
  THEN [out |-> value, err |-> "none", matched |-> FALSE, aead |-> FALSE,
        digest |-> IF digest.on THEN update(digest, to_bytes(value)) ELSE digest,
        fed |-> digest.on, bytes |-> IF digest.on THEN to_bytes(value) ELSE <<>>]
  ELSE IF ~IsPyStr(value)                       \* value.encode('utf-8')
  THEN [out |-> value, err |-> "AttributeError", matched |-> FALSE, aead |-> FALSE,
        digest |-> digest, fed |-> FALSE, bytes |-> <<>>]
  ELSE IF ~re_match(value)                      \* res is None: return value
  THEN [out |-> value, err |-> "none", matched |-> FALSE, aead |-> FALSE,
        digest |-> digest, fed |-> FALSE, bytes |-> <<>>]
  ELSE IF ~AesKeyOk(k)                          \* algorithms.AES(key)
  THEN [out |-> value, err |-> "ValueError", matched |-> TRUE, aead |-> FALSE,
        digest |-> digest, fed |-> FALSE, bytes |-> <<>>]
  ELSE IF ~AeadAuthenticates(value, k, aad)     \* finalize() raises InvalidTag
  THEN [out |-> value, err |-> "DecryptionFailed", matched |-> TRUE, aead |-> TRUE,
        digest |-> digest, fed |-> FALSE, bytes |-> <<>>]
  ELSE decoded(value.b, digest, decode(valtype_of(value), value.b))

----------------------------------------------------------------------------
(* The document tree.  A node is a record of one shape:                    *)
(*   t "map": ks are its keys in declared order, kids their values         *)
(*   t "seq": kids are its items                                           *)
(*   t "scalar": val is its value                                          *)
(*   t "meta": the value of the root's 'sops' key (its content is sops)    *)

Scalar(v) == [t |-> "scalar", ks |-> <<>>, kids |-> <<>>, val |-> v]

MapN(ks, kids) == [t |-> "map", ks |-> ks, kids |-> kids, val |-> StrV(<<>>)]

SeqN(kids) == [t |-> "seq", ks |-> <<>>, kids |-> kids, val |-> StrV(<<>>)]

MetaN == [t |-> "meta", ks |-> <<>>, kids |-> <<>>, val |-> StrV(<<>>)]

SopsKey == <<"sops">>

\* a step of a path: a mapping key (i = -1) or a sequence index (from 0)
KeyStep(k) == [k |-> k, i |-> -1]

IdxStep(i) == [k |-> <<>>, i |-> i]

\* k.endswith(UNENCRYPTED_SUFFIX)
EndsWith(k, suffix) ==
  /\ Len(k) >= Len(suffix)
  /\ SubSeq(k, Len(k) - Len(suffix) + 1, Len(k)) = suffix

\* line 282 (the variant below forgets the flag inherited from the parent)
unencrypted_branch_NoInherit(unencrypted, k) == EndsWith(k, UNENCRYPTED_SUFFIX)

unencrypted_branch(unencrypted, k) == unencrypted \/ EndsWith(k, UNENCRYPTED_SUFFIX)

\* lines 284-290: the AAD of the value under key k (the variant below
\* appends the key without its ':')
child_aad_NoColon(aad, carryaad, k) == aad \o k

child_aad(aad, carryaad, k) ==
  IF a_is_newer_than_b(INPUT_VERSION, <<0, 9>>)
  THEN aad \o k \o <<":">>
  ELSE carryaad \o k

\* the state threaded through the walk: the digest, the exception raised (and
\* the path of the leaf that raised it), and the log of the _decrypt calls
WalkStart(digest) == [digest |-> digest, err |-> "none", errPath |-> <<>>, log |-> <<>>]

\* the walk after a _decrypt call returned or raised r: the leaf is replaced,
\* the call is logged
after_decrypt(v, aad, st, unencrypted, path, r) ==
  [node |-> IF r.err = "none" THEN Scalar(r.out) ELSE v,
   st |-> [digest |-> r.digest,
           err |-> r.err,
           errPath |-> IF r.err = "none" THEN st.errPath ELSE path,
           log |-> Append(st.log,
                     [path |-> path, aad |-> aad, un |-> unencrypted, in |-> v.val,
                      out |-> r.out, matched |-> r.matched, aead |-> r.aead,
                      fed |-> r.fed, bytes |-> r.bytes, err |-> r.err])]]

\* a scalar reached by either walker: one _decrypt call
walk_scalar(v, k, aad, st, unencrypted, path) ==
  after_decrypt(v, aad, st, unencrypted, path,
                decrypt(v.val, k, aad, st.digest, unencrypted))

RECURSIVE map_loop(_, _, _, _, _, _, _, _, _)
RECURSIVE list_loop(_, _, _, _, _, _, _)
RECURSIVE map_value(_, _, _, _, _, _, _, _, _)
RECURSIVE list_value(_, _, _, _, _, _, _)

RECURSIVE walk_any(_, _, _, _, _, _)

\* _walk_list_and_decrypt: every item is walked with the list's own aad
walk_list_and_decrypt(branch, k, aad, st, unencrypted, path) ==
  list_loop(branch, 1, k, aad, st, unencrypted, path)

\* the loop of _walk_and_decrypt (lines 278-308) over a mapping's items
walk_items(branch, k, aad, st, isRoot, unencrypted, path) ==
  map_loop(branch, 1, k, aad, aad, st, isRoot, unencrypted, path)

\* the isinstance dispatch of both walkers on a value v
walk_any(v, k, aad, st, unencrypted, path) ==
  CASE v.t = "map" -> walk_items(v, k, aad, st, FALSE, unencrypted, path)
    [] v.t = "seq" -> walk_list_and_decrypt(v, k, aad, st, unencrypted, path)
    [] OTHER -> walk_scalar(v, k, aad, st, unencrypted, path)

\* lines 288-290: what carryaad becomes once key k is passed
carry_aad(aad, carryaad, k) ==
  IF a_is_newer_than_b(INPUT_VERSION, <<0, 9>>) THEN carryaad
  ELSE child_aad(aad, carryaad, k)

\* lines 255-270: the items of a list, in index order; an exception ends the loop
list_loop(branch, i, k, aad, st, unencrypted, path) ==
  IF i > Len(branch.kids) \/ st.err # "none" THEN [node |-> branch, st |-> st]
  ELSE list_value(branch, i, k, aad, unencrypted, path,
                  walk_any(branch.kids[i], k, aad, st, unencrypted,
                           Append(path, IdxStep(i - 1))))

\* kl.append(...): item i is replaced by r, and the loop goes on
list_value(branch, i, k, aad, unencrypted, path, r) ==
  list_loop([branch EXCEPT !.kids[i] = r.node], i + 1, k, aad, r.st, unencrypted, path)

\* lines 279-308: the items of a mapping, in declared order
map_loop(branch, i, k, aad, carryaad, st, isRoot, unencrypted, path) ==
  IF i > Len(branch.ks) \/ st.err # "none" THEN [node |-> branch, st |-> st]
  ELSE IF branch.ks[i] = SopsKey /\ isRoot
  THEN map_loop(branch, i + 1, k, aad, carryaad, st, isRoot, unencrypted, path)
  ELSE map_value(branch, i, k, aad, isRoot, unencrypted, path,
                 carry_aad(aad, carryaad, branch.ks[i]),
                 walk_any(branch.kids[i], k, child_aad(aad, carryaad, branch.ks[i]), st,
                          unencrypted_branch(unencrypted, branch.ks[i]),
                          Append(path, KeyStep(branch.ks[i]))))

\* branch[k] = ...: the value under key i is replaced by r, and the loop goes on
map_value(branch, i, k, aad, isRoot, unencrypted, path, carry, r) ==
  map_loop([branch EXCEPT !.kids[i] = r.node], i + 1, k, aad, carry, r.st,
           isRoot, unencrypted, path)

\* lines 310-322: the MAC check that ends the root walk; meta is branch['sops']
compare_mac(st, h, orig_h) ==
  IF orig_h.err # "none" THEN [st EXCEPT !.err = orig_h.err]
  ELSE IF ~PyEq(h, orig_h.out) THEN [st EXCEPT !.err = "ChecksumFailed"]
  ELSE st

verify_mac(meta, k, st) ==
  IF ~meta.has_mac
  THEN [st EXCEPT !.err = "MissingIntegrityField"]
  ELSE compare_mac(st, StrV(upper(hexdigest(st.digest))),
                   decrypt(meta.mac, k, meta.lastmodified, NoDigest, FALSE))

\* _walk_and_decrypt called on the root (isRoot, aad b'', unencrypted False)
end_walk(meta, k, ignoreMac, r) ==
  IF r.st.err # "none" \/ ignoreMac THEN r
  ELSE [node |-> r.node, st |-> verify_mac(meta, k, r.st)]

walk_and_decrypt(branch, meta, k, ignoreMac) ==
  end_walk(meta, k, ignoreMac,
           walk_items(branch, k, <<>>,
                      WalkStart(IF ~ignoreMac THEN sha512 ELSE NoDigest),
                      TRUE, FALSE, <<>>))

----------------------------------------------------------------------------
(* Key acquisition.  A key-wrapping entry is a record:                     *)
(*   kind    "empty" (a falsy entry), "noenc" (no 'enc'), "norid" (no or   *)
(*           empty 'resource_id'), "raise" (the unwrap raises), "ok" (the  *)
(*           unwrap returns key)                                           *)
(*   created its 'created_at': absent, not in the timestamp format, or     *)
(*           its age in days                                               *)

NoCreated == [has |-> FALSE, parses |-> TRUE, age |-> 0]

Malformed == [has |-> TRUE, parses |-> FALSE, age |-> 0]

Created(age) == [has |-> TRUE, parses |-> TRUE, age |-> age]

Entry(kind, k, created) == [kind |-> kind, key |-> k, created |-> created]

RECURSIVE kms_loop(_, _, _)
kms_loop(kms_tree, j, errs) ==
  IF j > Len(kms_tree) THEN [key |-> None, errors |-> errs]
  ELSE LET entry == kms_tree[j]
       IN CASE entry.kind \in {"empty", "noenc", "norid"} -> kms_loop(kms_tree, j + 1, errs)
            [] entry.kind = "raise" -> kms_loop(kms_tree, j + 1, Append(errs, j))
            [] OTHER -> [key |-> entry.key, errors |-> errs]   \* return response.plaintext

\* _get_key_from_kms
get_key_from_kms(meta) ==
  IF ~meta.has_gcp_kms THEN [key |-> None, errors |-> <<>>]
  ELSE kms_loop(meta.gcp_kms, 1, <<>>)

RECURSIVE pgp_loop(_, _)
pgp_loop(pgp_tree, j) ==
  IF j > Len(pgp_tree) THEN None
  ELSE LET entry == pgp_tree[j]
       IN CASE entry.kind \in {"empty", "noenc", "raise"} -> pgp_loop(pgp_tree, j + 1)
            [] OTHER -> IF entry.key.len = KeyLen THEN entry.key
                        ELSE pgp_loop(pgp_tree, j + 1)

\* _get_key_from_pgp
get_key_from_pgp(meta) == IF ~meta.has_pgp THEN None ELSE pgp_loop(meta.pgp, 1)

\* _get_key: the key, or None where the code panics
or_from_pgp(meta, kms) ==
  IF kms.key # None THEN kms
  ELSE [key |-> get_key_from_pgp(meta), errors |-> kms.errors]

get_key(meta) == or_from_pgp(meta, get_key_from_kms(meta))

\* one of the two scans of _check_rotation_needed over a list of entries
RECURSIVE rotation_loop(_, _, _)
rotation_loop(entries, j, show) ==
  IF j > Len(entries) THEN [err |-> "none", show |-> show]
  ELSE LET entry == entries[j]
       IN IF entry.kind = "empty" \/ ~entry.created.has
          THEN rotation_loop(entries, j + 1, show)
          ELSE IF ~entry.created.parses            \* datetime.strptime raises
          THEN [err |-> "ValueError", show |-> show]
          ELSE rotation_loop(entries, j + 1, show \/ entry.created.age > RotationDays)

\* _check_rotation_needed: the lists scanned are sops['kms'] and sops['pgp']
then_pgp(meta, r1) ==
  IF r1.err # "none" THEN r1
  ELSE IF meta.has_pgp THEN rotation_loop(meta.pgp, 1, r1.show)
  ELSE r1

check_rotation_needed(meta) ==
  then_pgp(meta, IF meta.has_kms THEN rotation_loop(meta.kms, 1, FALSE)
                 ELSE [err |-> "none", show |-> FALSE])

----------------------------------------------------------------------------
(* The actions: the stages of _decrypt_stream *)

NoResult == [returned |-> FALSE, tree |-> MapN(<<>>, <<>>)]

\* tree.pop('sops', None)
pop_sops(branch) ==
  LET keep == SelectSeq([i \in 1..Len(branch.ks) |-> i], LAMBDA i : branch.ks[i] # SopsKey)
  IN MapN([j \in 1..Len(keep) |-> branch.ks[keep[j]]],
          [j \in 1..Len(keep) |-> branch.kids[keep[j]]])

\* key, tree = _get_key(tree)
GotKey(r) ==
  /\ key' = r.key
  /\ errors' = r.errors
  /\ IF r.key = None           \* _panic("could not retrieve a key ...")
     THEN pc' = "Aborted" /\ err' = "KeyUnavailable" /\ stage' = "KeyProvider"
     ELSE pc' = "KeyAcquired" /\ UNCHANGED <<err, stage>>

GetKey ==
  /\ pc = "Parsed"
  /\ GotKey(get_key(sops))
  /\ UNCHANGED <<tree, sops, ignore_mac, errPath, advisory, visits, result, orig, tamper>>
  /\ UNCHANGED versionVars

\* _check_rotation_needed(tree)
RotationChecked(r) ==
  /\ advisory' = (r.err = "none" /\ r.show)
  /\ IF r.err # "none"
     THEN pc' = "Aborted" /\ err' = r.err /\ stage' = "RotationAdvisory"
     ELSE pc' = "RotationChecked" /\ UNCHANGED <<err, stage>>

CheckRotationNeeded ==
  /\ pc = "KeyAcquired"
  /\ RotationChecked(check_rotation_needed(sops))
  /\ UNCHANGED <<tree, sops, ignore_mac, key, errPath, errors, visits, result, orig, tamper>>
  /\ UNCHANGED versionVars

\* tree = _walk_and_decrypt(tree, key, ignoreMac=ignore_mac)
Walked(r) ==
  /\ tree' = r.node
  /\ visits' = r.st.log
  /\ errPath' = r.st.errPath
  /\ IF r.st.err # "none"
     THEN /\ pc' = "Aborted"
          /\ err' = r.st.err
          /\ stage' = IF \E i \in 1..Len(r.st.log) : r.st.log[i].err # "none"
                      THEN "AEADCodec" ELSE "IntegrityVerifier"
     ELSE pc' = "Walked" /\ UNCHANGED <<err, stage>>

WalkAndDecrypt ==
  /\ pc = "RotationChecked"
  /\ Walked(walk_and_decrypt(tree, sops, key, ignore_mac))
  /\ UNCHANGED <<sops, ignore_mac, key, errors, advisory, result, orig, tamper>>
  /\ UNCHANGED versionVars

\* if tree: tree.pop('sops', None); return dict(tree)
Return ==
  /\ pc = "Walked"
  /\ pc' = "Done"
  /\ result' = IF Len(tree.ks) > 0 THEN [returned |-> TRUE, tree |-> pop_sops(tree)]
               ELSE NoResult
  /\ UNCHANGED <<tree, sops, ignore_mac, key, err, stage, errPath, errors, advisory,
                 visits, orig, tamper>>
  /\ UNCHANGED versionVars

Next == GetKey \/ CheckRotationNeeded \/ WalkAndDecrypt \/ Return

\* both verdicts of _a_is_newer_than_b on a pair of versions
Compare ==
  /\ vpc = "start"
  /\ vpc' = "compared"
  /\ ab' = a_is_newer_than_b(A, B)
  /\ ba' = a_is_newer_than_b(B, A)
  /\ UNCHANGED <<A, B>>
  /\ UNCHANGED sessionVars

NextVersion == Compare

----------------------------------------------------------------------------
(* The inputs: the documents and metadata a session may be given *)

K1 == [id |-> "K1", len |-> KeyLen]

\* other key material: another 256-bit key, a 128-bit key, five bytes, b''
K2 == [id |-> "K2", len |-> KeyLen]

KShort == [id |-> "K16", len |-> KeyLen \div 2]

KOdd == [id |-> "K5", len |-> 5]

KEmpty == [id |-> "", len |-> 0]

LastModified == <<"2020-01-01T00:00:00Z">>

DocKeys == {<<"a">>, <<"a", "_unencrypted">>}

RenameKeys == {<<"b">>, <<"b", "_unencrypted">>}

\* the leaves of structured documents: an encrypted str (its AAD is set when
\* the document is sealed) and a str that is not in the framing
StructLeaves == {Scalar(EncV(<<"s">>, "str", "K1", <<>>)), Scalar(StrV(<<"p">>))}

\* sequences of w distinct keys
KeySeqs(w) == {ks \in [1..w -> DocKeys] : \A i, j \in 1..w : i # j => ks[i] # ks[j]}

RECURSIVE TreesN(_)
RECURSIVE ForestsN(_, _)

\* the trees of exactly m nodes
TreesN(m) ==
  IF m = 1 THEN StructLeaves
  ELSE UNION { {SeqN(f) : f \in ForestsN(m - 1, w)}
               \cup {MapN(ks, f) : ks \in KeySeqs(w), f \in ForestsN(m - 1, w)}
               : w \in 1..(m - 1) }

\* the sequences of w trees of m nodes in all
ForestsN(m, w) ==
  IF w = 0 THEN (IF m = 0 THEN {<<>>} ELSE {})
  ELSE UNION { {<<t>> \o f : t \in TreesN(j), f \in ForestsN(m - j, w - 1)}
               : j \in 1..(m - w + 1) }

\* a root mapping: its entries, then the 'sops' entry
Root(ks, kids) == MapN(ks \o <<SopsKey>>, kids \o <<MetaN>>)

StructDocs ==
  UNION { UNION { {Root(ks, f) : ks \in KeySeqs(w), f \in ForestsN(m, w)}
                  : w \in 1..Min(m, Cardinality(DocKeys)) }
          : m \in 1..MaxNodes }

\* the encrypting side (format >= 0.9): every encrypted leaf is sealed with
\* the AAD of its path, "<key>:" per mapping key above it
RECURSIVE Seal(_, _)
Seal(node, aad) ==
  CASE node.t = "map" ->
         [node EXCEPT !.kids = [i \in 1..Len(node.kids) |->
                                  Seal(node.kids[i], aad \o node.ks[i] \o <<":">>)]]
    [] node.t = "seq" ->
         [node EXCEPT !.kids = [i \in 1..Len(node.kids) |-> Seal(node.kids[i], aad)]]
    [] node.t = "scalar" /\ node.val.s = "enc" -> Scalar([node.val EXCEPT !.aad = aad])
    [] OTHER -> node

\* the paths of the mapping keys of a document (the root's 'sops' aside)
RECURSIVE KeyPaths(_, _)
KeyPaths(node, prefix) ==
  CASE node.t = "map" ->
         UNION { IF node.ks[i] = SopsKey THEN {}
                 ELSE {Append(prefix, KeyStep(node.ks[i]))}
                      \cup KeyPaths(node.kids[i], Append(prefix, KeyStep(node.ks[i])))
                 : i \in 1..Len(node.ks) }
    [] node.t = "seq" ->
         UNION { KeyPaths(node.kids[i], Append(prefix, IdxStep(i - 1)))
                 : i \in 1..Len(node.kids) }
    [] OTHER -> {}

\* the document with the key at path renamed to `to`, its value untouched
RECURSIVE RenameAt(_, _, _)
RenameAt(node, path, to) ==
  LET i == IF node.t = "map"
           THEN CHOOSE j \in 1..Len(node.ks) : node.ks[j] = path[1].k
           ELSE path[1].i + 1
  IN IF Len(path) = 1 THEN [node EXCEPT !.ks[i] = to]
     ELSE [node EXCEPT !.kids[i] = RenameAt(node.kids[i], Tail(path), to)]

NoTamper == [kind |-> "none", path |-> <<>>, to |-> <<>>]

Rename(path, to) == [kind |-> "rename", path |-> path, to |-> to]

Alter(path) == [kind |-> "alter", path |-> path, to |-> <<>>]

\* the digest the walk computes over a document
WalkDigest(doc, k) ==
  walk_items(doc, k, <<>>, WalkStart(sha512), TRUE, FALSE, <<>>).st.digest

HexOf(doc, k) == upper(hexdigest(WalkDigest(doc, k)))

\* the MAC field as written: the digest's hex, sealed with the data key under
\* the lastmodified timestamp
StoredMac(hex) == EncV(hex, "str", "K1", LastModified)

Meta(gcp, pgp, aws, has_mac, mac) ==
  [has_gcp_kms |-> gcp.has, gcp_kms |-> gcp.list,
   has_pgp |-> pgp.has, pgp |-> pgp.list,
   has_kms |-> aws.has, kms |-> aws.list,
   has_mac |-> has_mac, mac |-> mac, lastmodified |-> LastModified]

Absent == [has |-> FALSE, list |-> <<>>]

List(l) == [has |-> TRUE, list |-> l]

\* metadata with one working KMS entry
GoodMeta(has_mac, mac) ==
  Meta(List(<<Entry("ok", K1, NoCreated)>>), Absent, Absent, has_mac, mac)

VersionIdle ==
  /\ vpc = "idle" /\ A = <<0>> /\ B = <<0>> /\ ab = FALSE /\ ba = FALSE

SessionStart(o, doc, meta, im, tam) ==
  /\ pc = "Parsed"
  /\ tree = doc
  /\ sops = meta
  /\ ignore_mac = im
  /\ key = None
  /\ err = "none"
  /\ stage = "none"
  /\ errPath = <<>>
  /\ errors = <<>>
  /\ advisory = FALSE
  /\ visits = <<>>
  /\ result = NoResult
  /\ orig = o
  /\ tamper = tam

\* structured documents, sealed, then possibly with one key renamed
InitStruct ==
  \E d \in StructDocs, im \in BOOLEAN :
    LET o == Seal(d, <<>>)
    IN \E tam \in {NoTamper} \cup {Rename(p, to) : p \in KeyPaths(o, <<>>), to \in RenameKeys} :
         SessionStart(o,
                      IF tam.kind = "rename" THEN RenameAt(o, tam.path, tam.to) ELSE o,
                      GoodMeta(TRUE, StoredMac(HexOf(o, K1))), im, tam)

\* the scalars of one-leaf documents under key kk
TypeLeaves(kk) ==
  LET aad == kk \o <<":">>
  IN {EncV(<<"s">>, "str", "K1", aad), EncV(<<"0xFF">>, "str", "K1", aad),
      EncV(<<"s">>, "bytes", "K1", aad),
      EncV(<<"42">>, "int", "K1", aad), EncV(<<"x">>, "int", "K1", aad),
      EncV(<<"1.5">>, "float", "K1", aad),
      EncV(<<"true">>, "bool", "K1", aad), EncV(<<"TRUE">>, "bool", "K1", aad),
      EncV(<<"no">>, "bool", "K1", aad),
      EncV(<<"s">>, "weird", "K1", aad),
      EncV(<<"42">>, "none", "K1", aad),
      EncV(<<"s">>, "str", "tampered", aad), EncV(<<"s">>, "str", "K2", aad),
      EncV(<<"s">>, "str", "K1", <<"z", ":">>),
      StrV(<<"p">>), IntV(7)}

MacKinds == {"absent", "stored", "otheraad", "otherkey", "lowercase", "bytes",
             "stale", "plain"}

\* the MAC field: hexWas is the digest's hex when the document was sealed,
\* hexNow that of the document as it is given
MacField(kind, hexWas, hexNow) ==
  CASE kind = "stored" -> StoredMac(hexWas)
    [] kind = "otheraad" -> EncV(hexNow, "str", "K1", <<"1999-01-01T00:00:00Z">>)
    [] kind = "otherkey" -> EncV(hexNow, "str", "K2", LastModified)
    [] kind = "lowercase" -> EncV(hexdigest([on |-> TRUE, d |-> Tail(hexNow)]), "str", "K1", LastModified)
    [] kind = "bytes" -> EncV(hexNow, "bytes", "K1", LastModified)
    [] kind = "stale" -> StoredMac(<<"HEX", "stale">>)
    [] kind = "plain" -> StrV(hexNow)      \* the hex itself, never encrypted
    [] OTHER -> StrV(<<>>)

\* one-leaf documents of every scalar kind, with every kind of MAC field; a
\* str leaf not in the framing may have been altered after sealing, and the
\* leaf's key may have been renamed
InitTypes ==
  \E kk \in DocKeys, im \in BOOLEAN, mk \in MacKinds :
    \E leaf \in TypeLeaves(kk),
       tam \in {NoTamper, Alter(<<KeyStep(kk)>>)}
               \cup {Rename(<<KeyStep(kk)>>, to) : to \in RenameKeys} :
      /\ tam.kind = "alter" => leaf.s = "str"
      /\ LET o == Root(<<kk>>, <<Scalar(leaf)>>)
             doc == CASE tam.kind = "alter" -> Root(<<kk>>, <<Scalar(StrV(<<"q">>))>>)
                      [] tam.kind = "rename" -> RenameAt(o, tam.path, tam.to)
                      [] OTHER -> o
         IN SessionStart(o, doc,
                         GoodMeta(mk # "absent", MacField(mk, HexOf(o, K1), HexOf(doc, K1))),
                         im, tam)

\* the lists of at most n entries over a set of entries, or no list at all
Lists(S, n) == {Absent} \cup UNION { {List(l) : l \in [1..m -> S]} : m \in 0..n }

GcpEntries ==
  {Entry("empty", None, NoCreated), Entry("noenc", K1, NoCreated),
   Entry("norid", K1, NoCreated), Entry("raise", None, NoCreated),
   Entry("ok", K1, NoCreated), Entry("ok", K1, Created(200)),
   Entry("ok", KShort, NoCreated), Entry("ok", KEmpty, NoCreated)}

PgpEntries ==
  {Entry("empty", None, NoCreated), Entry("noenc", K1, NoCreated),
   Entry("raise", None, NoCreated), Entry("ok", KEmpty, NoCreated),
   Entry("ok", K1, NoCreated), Entry("ok", K1, Created(200)),
   Entry("ok", K1, Created(RotationDays)), Entry("ok", K2, Malformed)}

AwsLists ==
  {Absent, List(<<Entry("ok", K1, Created(200))>>), List(<<Entry("ok", K1, Malformed)>>),
   List(<<Entry("empty", None, NoCreated), Entry("ok", K1, Created(10))>>)}

\* one backend's list is varied to MaxEntries entries, the other's to one
KeyConfigs ==
  (Lists(GcpEntries, MaxEntries) \X Lists(PgpEntries, 1))
  \cup (Lists(GcpEntries, 1) \X Lists(PgpEntries, MaxEntries))

\* a one-leaf document with every configuration of the key-wrapping entries
InitKeys ==
  \E c \in KeyConfigs, aws \in AwsLists :
    LET o == Root(<<<<"a">>>>, <<Scalar(EncV(<<"s">>, "str", "K1", <<"a", ":">>))>>)
    IN SessionStart(o, o, Meta(c[1], c[2], aws, TRUE, StoredMac(HexOf(o, K1))),
                    FALSE, NoTamper)

Init == (InitStruct \/ InitTypes \/ InitKeys) /\ VersionIdle

Spec == Init /\ [][Next]_vars

\* the versions compared: short ones over small components, and the
\* program's own version and thresholds
Versions ==
  UNION { [1..n -> 0..MaxComp] : n \in 1..MaxVerLen }
  \cup {INPUT_VERSION, <<0, 8>>, <<0, 9>>, <<1, 0>>}

InitVersion ==
  /\ vpc = "start"
  /\ A \in Versions
  /\ B \in Versions
  /\ ab = FALSE
  /\ ba = FALSE
  /\ LET o == Root(<<<<"a">>>>, <<Scalar(StrV(<<"p">>))>>)
     IN SessionStart(o, o, GoodMeta(FALSE, StrV(<<>>)), TRUE, NoTamper)
  /\ pc = "Parsed"

SpecVersion == InitVersion /\ [][NextVersion]_vars

----------------------------------------------------------------------------
(* Notions the properties are stated with *)

\* the walk has run (to its end or to the exception that ended it)
WalkRan ==
  \/ pc \in {"Walked", "Done"}
  \/ pc = "Aborted" /\ stage \in {"AEADCodec", "IntegrityVerifier"}

IsPrefix(p, q) == Len(p) <= Len(q) /\ SubSeq(q, 1, Len(p)) = p

Parent(path) == SubSeq(path, 1, Len(path) - 1)

Last(path) == path[Len(path)]

IsKeyStep(step) == step.i = -1

\* a mapping key on the path ends in the unencrypted suffix
UnderSuffix(path) ==
  \E i \in 1..Len(path) : IsKeyStep(path[i]) /\ EndsWith(path[i].k, UNENCRYPTED_SUFFIX)

\* "<key>:" for every mapping key of the path; sequence indices add nothing
RECURSIVE KeyPathAad(_)
KeyPathAad(path) ==
  IF path = <<>> THEN <<>>
  ELSE KeyPathAad(Parent(path))
       \o (IF IsKeyStep(Last(path)) THEN Last(path).k \o <<":">> ELSE <<>>)

\* "<key>:" for every mapping key and "<index>:" for every sequence index
RECURSIVE FullPathAad(_)
FullPathAad(path) ==
  IF path = <<>> THEN <<>>
  ELSE FullPathAad(Parent(path))
       \o (IF IsKeyStep(Last(path)) THEN Last(path).k ELSE <<ToString(Last(path).i)>>)
       \o <<":">>

\* the scalars of a document with their paths (the root's 'sops' aside)
RECURSIVE Leaves(_, _)
Leaves(node, prefix) ==
  CASE node.t = "map" ->
         UNION { IF node.ks[i] = SopsKey /\ prefix = <<>> THEN {}
                 ELSE Leaves(node.kids[i], Append(prefix, KeyStep(node.ks[i])))
                 : i \in 1..Len(node.ks) }
    [] node.t = "seq" ->
         UNION { Leaves(node.kids[i], Append(prefix, IdxStep(i - 1)))
                 : i \in 1..Len(node.kids) }
    [] node.t = "scalar" -> {[path |-> prefix, val |-> node.val]}
    [] OTHER -> {}

\* the node of a document at a path
RECURSIVE NodeAt(_, _)
NodeAt(node, path) ==
  IF path = <<>> THEN node
  ELSE NodeAt(node.kids[IF node.t = "map"
                        THEN CHOOSE j \in 1..Len(node.ks) : node.ks[j] = path[1].k
                        ELSE path[1].i + 1],
              Tail(path))

\* all the bytes the walk fed to the digest, in order
RECURSIVE FedBytes(_)
FedBytes(log) ==
  IF log = <<>> THEN <<>> ELSE FedBytes(Parent(log)) \o Last(log).bytes

\* the path of the renamed key after the renaming
RenamedPath == Append(Parent(tamper.path), KeyStep(tamper.to))

\* the leaves the untampered document holds encrypted (in the framing, with no
\* unencrypted-suffix key above them) under the key that was renamed
EncryptedLeavesUnderRenamed ==
  {l \in Leaves(orig, <<>>) :
     /\ l.val.s = "enc"
     /\ ~UnderSuffix(l.path)
     /\ IsPrefix(tamper.path, l.path)}

\* those of them that _decrypt's regex classifies as encrypted
ClassifiedLeavesUnderRenamed == {l \in EncryptedLeavesUnderRenamed : re_match(l.val)}

----------------------------------------------------------------------------
(* The properties *)

\* the MAC field is an encrypted scalar that authenticates under the data key
\* with the lastmodified timestamp as AAD and holds the walk's digest in hex
MacAuthentic ==
  /\ sops.has_mac
  /\ sops.mac.s = "enc"
  /\ sops.mac.ty # "none"
  /\ sops.mac.kid = key.id
  /\ sops.mac.aad = sops.lastmodified
  /\ sops.mac.b = upper(hexdigest([on |-> TRUE, d |-> FedBytes(visits)]))

\* C1: a tree is returned only when a data key was acquired, every encrypted
\* leaf (every scalar in the ENC[...] framing outside unencrypted subtrees)
\* was authenticated and decoded, and, unless ignore_mac, the integrity check
\* of an authenticated MAC passed; a session that aborted returns no tree.
C1_AllOrNothing ==
  /\ result.returned =>
       /\ key # None
       /\ \A i \in 1..Len(visits) :
            (visits[i].in.s = "enc" /\ ~visits[i].un) =>
              (visits[i].aead /\ visits[i].err = "none")
       /\ ignore_mac \/ MacAuthentic
  /\ (pc = "Aborted" \/ err # "none") => ~result.returned

\* C2: with verification on, the root walk ends without error only if the
\* 'mac' field is present, is an encrypted scalar authenticated with the data
\* key under the lastmodified AAD, and decrypts to the accumulated digest;
\* an absent field aborts with MissingIntegrityField.
C2_MacAuthenticated ==
  /\ (pc \in {"Walked", "Done"} /\ ~ignore_mac) => MacAuthentic
  /\ (WalkRan /\ ~ignore_mac /\ ~sops.has_mac /\ stage # "AEADCodec")
       => err = "MissingIntegrityField"

\* C3: with the digest active every scalar leaf outside 'sops' feeds the
\* digest exactly once, in traversal order, with its plaintext bytes, also
\* when it is merely passed through; so a document whose passthrough leaf
\* was altered after sealing fails with ChecksumFailed.
C3_EveryLeafDigested ==
  /\ (pc \in {"Walked", "Done"} /\ ~ignore_mac) =>
       /\ Len(visits) = Cardinality(Leaves(orig, <<>>))
       /\ \A i \in 1..Len(visits) :
            /\ visits[i].fed
            /\ visits[i].bytes = IF visits[i].aead THEN visits[i].in.b
                                 ELSE to_bytes(visits[i].in)
  /\ (WalkRan /\ ~ignore_mac /\ tamper.kind = "alter" /\ sops.has_mac
        /\ sops.mac = StoredMac(HexOf(orig, K1)))
       => (pc = "Aborted" /\ err = "ChecksumFailed")

\* C4 as claimed: the AAD of every leaf is "<key>:" per mapping key and
\* "<index>:" per sequence index of its path, so no two siblings share one.
C4_AadPerKeyOrIndex ==
  WalkRan =>
    /\ \A i \in 1..Len(visits) : visits[i].aad = FullPathAad(visits[i].path)
    /\ \A i, j \in 1..Len(visits) :
         (i # j /\ Parent(visits[i].path) = Parent(visits[j].path))
           => visits[i].aad # visits[j].aad

\* C4 as the code has it: the AAD of every leaf is "<key>:" per mapping key
\* of its path and nothing per sequence index; two entries of one mapping
\* never share an AAD, the items of one sequence all share the sequence's.
C4_AadPerMappingKey ==
  WalkRan =>
    /\ \A i \in 1..Len(visits) : visits[i].aad = KeyPathAad(visits[i].path)
    /\ \A i, j \in 1..Len(visits) :
         (i # j /\ Parent(visits[i].path) = Parent(visits[j].path)) =>
           IF IsKeyStep(Last(visits[i].path))
           THEN visits[i].aad # visits[j].aad
           ELSE visits[i].aad = visits[j].aad

\* a finished decrypt in which two scalar items of one sequence were both
\* authenticated, with the same AAD, below at least one mapping key
C4_Witness ==
  /\ pc = "Done"
  /\ \E i, j \in 1..Len(visits) :
       /\ i # j
       /\ Parent(visits[i].path) = Parent(visits[j].path)
       /\ ~IsKeyStep(Last(visits[i].path))
       /\ visits[i].aead /\ visits[j].aead
       /\ visits[i].aad = visits[j].aad
       /\ visits[i].aad # <<>>

UsableKeys ==
  SelectSeq((IF sops.has_gcp_kms THEN sops.gcp_kms ELSE <<>>)
              \o (IF sops.has_pgp THEN sops.pgp ELSE <<>>),
            LAMBDA e : e.kind = "ok" /\ e.key.len = KeyLen)

C6_OrderedFallback256 ==
  pc # "Parsed" =>
    /\ (stage = "KeyProvider") <=> (UsableKeys = <<>>)
    /\ stage = "KeyProvider" => err = "KeyUnavailable"
    /\ stage # "KeyProvider" => (key.len = KeyLen /\ key = UsableKeys[1].key)

\* C7: an authenticated encrypted scalar decodes by its type tag: bytes raw,
\* str or no tag as UTF-8 text (raw bytes if that fails), int and float as
\* the number, bool as a case-insensitive 'true'; a scalar in the framing
\* without a type tag is decrypted to a string.
TagDecode(value) ==
  CASE value.ty = "bytes" -> BytesV(value.b)
    [] value.ty \in {"str", "none"} ->
         IF IsUtf8(value.b) THEN StrV(value.b) ELSE BytesV(value.b)
    [] value.ty = "int" -> IntV(IntText[value.b[1]])
    [] value.ty = "float" -> FloatV(FloatText[value.b[1]])
    [] OTHER -> BoolV(lower(value.b) = <<"true">>)

C7_TypedDecode ==
  \A i \in 1..Len(visits) :
    (/\ visits[i].in.s = "enc"
     /\ ~visits[i].un
     /\ visits[i].in.ty \in {"bytes", "str", "none", "int", "float", "bool"}
     /\ visits[i].in.kid = key.id
     /\ visits[i].in.aad = visits[i].aad
     /\ visits[i].err = "none")
    => (/\ visits[i].matched
        /\ visits[i].aead
        /\ visits[i].out = TagDecode(visits[i].in))

\* C8: below a mapping key that ends in '_unencrypted' every leaf, at any
\* depth and through mappings and sequences alike, bypasses the codec (no
\* classification, no decryption, whatever its framing), is returned
\* unchanged, and feeds its raw bytes to the digest when there is one; the
\* mark holds for the whole subtree and for nothing outside it.
C8_UnencryptedPropagation ==
  WalkRan =>
    \A i \in 1..Len(visits) :
      /\ visits[i].un = UnderSuffix(visits[i].path)
      /\ UnderSuffix(visits[i].path) =>
           /\ ~visits[i].matched
           /\ ~visits[i].aead
           /\ visits[i].err = "none"
           /\ visits[i].out = visits[i].in
           /\ NodeAt(tree, visits[i].path) = Scalar(visits[i].in)
           /\ visits[i].fed = ~ignore_mac
           /\ ~ignore_mac => visits[i].bytes = to_bytes(visits[i].in)
           /\ result.returned => NodeAt(result.tree, visits[i].path) = Scalar(visits[i].in)

\* a verified, returned document with a scalar in the encrypted framing two
\* containers (a mapping and a sequence) below an '_unencrypted' key, and a
\* decrypted sibling outside that subtree
C8_Witness ==
  /\ pc = "Done"
  /\ ~ignore_mac
  /\ \E i, j \in 1..Len(visits) :
       /\ UnderSuffix(<<visits[i].path[1]>>)
       /\ Len(visits[i].path) >= 3
       /\ \E m \in 2..Len(visits[i].path) : IsKeyStep(visits[i].path[m])
       /\ \E m \in 2..Len(visits[i].path) : ~IsKeyStep(visits[i].path[m])
       /\ visits[i].in.s = "enc"
       /\ ~UnderSuffix(visits[j].path)
       /\ visits[j].aead

\* C9: the rotation scan inspects every entry of the backends the key is
\* taken from, prints the advisory exactly when one of them was created more
\* than 183 days ago, and never ends the session.
C9_RotationObservational ==
  /\ stage # "RotationAdvisory"
  /\ pc \in {"RotationChecked", "Walked", "Done"} =>
       (advisory <=>
          \E e \in {sops.gcp_kms[i] : i \in 1..Len(sops.gcp_kms)}
                   \cup {sops.pgp[i] : i \in 1..Len(sops.pgp)} :
            e.kind # "empty" /\ e.created.has /\ e.created.parses
              /\ e.created.age > RotationDays)

\* C10: the comparison is the newer-or-equal relation of the total order on
\* versions: the first position where the two differ decides, equal compared
\* components leave it to the number of components, a version is
\* newer-or-equal to itself, and it never holds both ways for two versions.
FirstDiffers(VA, VB) ==
  {i \in 1..Min(Len(VA), Len(VB)) :
     VA[i] # VB[i] /\ \A j \in 1..(i - 1) : VA[j] = VB[j]}

NewerOrEqual(VA, VB) ==
  IF FirstDiffers(VA, VB) # {}
  THEN \E i \in FirstDiffers(VA, VB) : VA[i] > VB[i]
  ELSE Len(VA) >= Len(VB)

C10_NewerOrEqualTotalOrder ==
  vpc = "compared" =>
    /\ ab = NewerOrEqual(A, B)
    /\ ba = NewerOrEqual(B, A)
    /\ A # B => ~(ab /\ ba)

====
